---- MODULE Spec2Model ----
(***************************************************************************)
(* A model of the Python graph model library (savasp/graphmodel-dotnet,    *)
(* src/python): the relationship-type naming convention of GraphDataModel, *)
(* the traversal value types and immutable builders of querying/traversal, *)
(* and the Neo4j entity codec of providers/neo4j/serialization.            *)
(*                                                                         *)
(* Python strings are sequences of one-character strings, so that          *)
(* concatenation, startswith/endswith and slicing are computed as Python   *)
(* computes them.  Python's None, where it can meet a string, is the       *)
(* one-element sequence <<"None">>, which no character sequence equals.    *)
(***************************************************************************)
EXTENDS Integers, Sequences, FiniteSets, TLC

VARIABLES
    nm,        \* the last two calls of the name-mapping functions
    st,        \* the last TraversalStep construction and its outcome
    heap,      \* Python list objects holding entities: list id -> contents
    stepLists, \* Python list objects holding TraversalSteps: list id -> contents
    trav,      \* GraphTraversal objects: object id -> fields
    published, \* ids of the GraphTraversal objects returned to callers
    callers,   \* the concurrent callers of the traversal builders
    path,      \* the last TraversalPath construction and its outcome
    codec,     \* the last call of the entity codec and its outcome
    cls,       \* a declared type and what the type predicates returned for it
    plans,     \* query plan objects: object id -> operations, last result
    terminal,  \* the plan last asked for one entity, and what the calls gave
    drv        \* the Neo4jDriver class, the drivers it created, its callers

vars == <<nm, st, heap, stepLists, trav, published, callers, path, codec,
          cls, plans, terminal, drv>>

\* ------------------------------------------------------------------ bounds

MaxNameLen == 3     \* longest field name drawn
MaxMidLen == 2      \* longest free middle part of a relationship type name

\* ------------------------------------------------------------ Python strings

None == <<"None">>

Max(a, b) == IF a >= b THEN a ELSE b
Min(a, b) == IF a <= b THEN a ELSE b

\* str.startswith
StartsWith(s, p) == Len(s) >= Len(p) /\ SubSeq(s, 1, Len(p)) = p

\* str.endswith
EndsWith(s, p) == Len(s) >= Len(p) /\ SubSeq(s, Len(s) - Len(p) + 1, Len(s)) = p

\* A slice index as Python normalises it: negative counts from the end,
\* and the result is clamped to 0..len.
PyIndex(i, n) == IF i < 0 THEN Max(i + n, 0) ELSE Min(i, n)

\* s[start:stop] with step 1
PySlice(s, start, stop) ==
    LET a == PyIndex(start, Len(s))
        b == PyIndex(stop, Len(s))
    IN  IF b <= a THEN <<>> ELSE SubSeq(s, a + 1, b)

\* ------------------------------------------------- GraphDataModel naming

PROPERTY_RELATIONSHIP_TYPE_NAME_PREFIX ==
    <<"_", "_", "P", "R", "O", "P", "E", "R", "T", "Y", "_", "_">>

PROPERTY_RELATIONSHIP_TYPE_NAME_SUFFIX == <<"_", "_">>

\* Mutant: the f-string loses the suffix.
property_name_without_suffix(property_name) ==
    PROPERTY_RELATIONSHIP_TYPE_NAME_PREFIX \o property_name

property_name_to_relationship_type_name(property_name) ==
    PROPERTY_RELATIONSHIP_TYPE_NAME_PREFIX \o property_name
        \o PROPERTY_RELATIONSHIP_TYPE_NAME_SUFFIX

\* Mutant: the slice strips the prefix only.
relationship_type_name_strip_prefix_only(relationship_type_name) ==
    LET prefix == PROPERTY_RELATIONSHIP_TYPE_NAME_PREFIX
        suffix == PROPERTY_RELATIONSHIP_TYPE_NAME_SUFFIX
    IN  IF StartsWith(relationship_type_name, prefix)
           /\ EndsWith(relationship_type_name, suffix)
        THEN PySlice(relationship_type_name, Len(prefix), Len(relationship_type_name))
        ELSE relationship_type_name

relationship_type_name_to_property_name(relationship_type_name) ==
    LET prefix == PROPERTY_RELATIONSHIP_TYPE_NAME_PREFIX
        suffix == PROPERTY_RELATIONSHIP_TYPE_NAME_SUFFIX
    IN  IF StartsWith(relationship_type_name, prefix)
           /\ EndsWith(relationship_type_name, suffix)
        THEN PySlice(relationship_type_name, Len(prefix), 0 - Len(suffix))
        ELSE relationship_type_name

\* The characters names are drawn from: a letter, a letter of the prefix,
\* and the underscore the prefix and the suffix are made of.
Alphabet == {"a", "P", "_"}

RECURSIVE StringsUpTo(_)
StringsUpTo(n) ==
    IF n = 0 THEN {<<>>}
    ELSE LET shorter == StringsUpTo(n - 1)
         IN  shorter \cup {Append(s, c) : s \in shorter, c \in Alphabet}

\* Field names: every short name, and two names that contain the reserved
\* prefix and suffix themselves.
FieldNames ==
    StringsUpTo(MaxNameLen)
        \cup {PROPERTY_RELATIONSHIP_TYPE_NAME_PREFIX,
              PROPERTY_RELATIONSHIP_TYPE_NAME_PREFIX \o <<"a">>
                  \o PROPERTY_RELATIONSHIP_TYPE_NAME_SUFFIX}

\* Relationship type names handed to the inverse: every way of putting a
\* whole, truncated or displaced prefix before a free middle part and a
\* whole, halved or missing suffix after it.
NameHeads ==
    { <<>>,
      PROPERTY_RELATIONSHIP_TYPE_NAME_PREFIX,
      SubSeq(PROPERTY_RELATIONSHIP_TYPE_NAME_PREFIX, 1, 11),
      <<"a">> \o PROPERTY_RELATIONSHIP_TYPE_NAME_PREFIX }

NameTails == { <<>>, <<"_">>, PROPERTY_RELATIONSHIP_TYPE_NAME_SUFFIX }

RelationshipTypeNames ==
    { h \o m \o t : h \in NameHeads, m \in StringsUpTo(MaxMidLen), t \in NameTails }

NoCall == [op |-> "none", arg |-> <<>>, out |-> <<>>, back |-> <<>>]

\* A caller maps a field name to its relationship type name and maps that
\* name back.
ForwardCall(f) ==
    LET t == property_name_to_relationship_type_name(f)
    IN  /\ nm.prev.op = "none"
        /\ nm' = [last |-> [op |-> "forward", arg |-> f, out |-> t,
                            back |-> relationship_type_name_to_property_name(t)],
                  prev |-> nm.last]
        /\ UNCHANGED <<st, heap, stepLists, trav, published, callers, path, codec, cls, plans, terminal, drv>>

\* A caller maps an arbitrary relationship type name to a property name.
InverseCall(n) ==
    /\ nm.prev.op = "none"
    /\ nm' = [last |-> [op |-> "inverse", arg |-> n,
                        out |-> relationship_type_name_to_property_name(n),
                        back |-> <<>>],
              prev |-> nm.last]
    /\ UNCHANGED <<st, heap, stepLists, trav, published, callers, path, codec, cls, plans, terminal, drv>>

NextNames ==
    \/ nm.prev.op = "none" /\ \E f \in FieldNames : ForwardCall(f)
    \/ nm.prev.op = "none" /\ \E n \in RelationshipTypeNames : InverseCall(n)

\* ------------------------------------------------------- TraversalStep

MaxDepth == 2       \* depths handed to TraversalStep range over -MaxDepth..MaxDepth

NoError == [type |-> "none", msg |-> "none"]

ValueError(msg) == [type |-> "ValueError", msg |-> msg]

TraversalDirection == {"outgoing", "incoming", "both"}

RelationshipTypes == {"KNOWS", "WORKS_FOR"}

NodeTypes == {"Person", "Company"}

DepthArgs == (0 - MaxDepth) .. MaxDepth

\* Mutant: the second check compares the wrong way round.
TraversalStep_post_init_swapped(self) ==
    IF self.min_depth < 0
    THEN ValueError("Minimum depth must be non-negative")
    ELSE IF self.max_depth > self.min_depth
    THEN ValueError("Maximum depth must be greater than or equal to minimum depth")
    ELSE NoError

\* TraversalStep.__post_init__: the error it raises, NoError when it returns.
TraversalStep_post_init(self) ==
    IF self.min_depth < 0
    THEN ValueError("Minimum depth must be non-negative")
    ELSE IF self.max_depth < self.min_depth
    THEN ValueError("Maximum depth must be greater than or equal to minimum depth")
    ELSE NoError

\* The dataclass-generated __init__ assigns the five fields.
TraversalStep(relationship_type, target_node_type, direction, min_depth, max_depth) ==
    [relationship_type |-> relationship_type,
     target_node_type |-> target_node_type,
     direction |-> direction,
     min_depth |-> min_depth,
     max_depth |-> max_depth]

DefaultStep == TraversalStep("KNOWS", "Person", "outgoing", 1, 1)

\* A caller constructs a TraversalStep: the value exists unless
\* __post_init__ raised.
ConstructStep(r, t, d, lo, hi) ==
    LET self == TraversalStep(r, t, d, lo, hi)
        e == TraversalStep_post_init(self)
    IN  /\ st' = [called |-> TRUE, args |-> self, error |-> e,
                  exists |-> e = NoError]
        /\ UNCHANGED <<nm, heap, stepLists, trav, published, callers, path, codec, cls, plans, terminal, drv>>

NextSteps ==
    \E r \in RelationshipTypes, t \in NodeTypes, d \in TraversalDirection,
       lo \in DepthArgs, hi \in DepthArgs : ConstructStep(r, t, d, lo, hi)

\* ------------------------------------------------------- GraphTraversal

MaxTrav == 3        \* GraphTraversal objects created in one behaviour
MaxNodes == 2       \* longest list of start nodes

Callers == {"A", "B"}

Nodes == {"n1", "n2"}

\* None in _max_total_depth: a number no caller passes, so that depths
\* stay comparable.
NoDepth == -1000

\* The depths handed to with_depth_limit: a negative one, zero and a
\* positive one.
BuilderDepthArgs == {-1, 0, 1}

\* The (min_depth, max_depth) handed to add_step: one pair for each error
\* of __post_init__ and two valid ones.
StepDepthArgs == {<<-1, 1>>, <<1, 0>>, <<0, 1>>, <<1, 1>>}

Idle == [pc |-> "idle", op |-> "none", self |-> 0, step |-> DefaultStep,
         n |-> 0, new |-> 0, error |-> NoError]

\* GraphTraversal.__init__: the fields of a new object; the list of start
\* nodes is stored as the reference it was given, _steps is a fresh list.
GraphTraversal_init(start_nodes, fresh_list) ==
    [_start_nodes |-> start_nodes, _steps |-> fresh_list,
     _max_total_depth |-> NoDepth, _include_paths |-> FALSE]

\* Mutant: add_step appends to the receiver's own list.
add_step_in_place(lists, self_steps, new_list, step) ==
    [i \in 1 .. new_list |->
        IF i = new_list \/ i = self_steps THEN lists[self_steps] \o <<step>>
        ELSE lists[i]]

\* add_step, line 188: self._steps + [step] is a new list object.
add_step_steps(lists, self_steps, new_list, step) ==
    [i \in 1 .. new_list |->
        IF i = new_list THEN lists[self_steps] \o <<step>> ELSE lists[i]]

\* Mutant: the copy loses the last step.
copy_steps_truncated(lists, self_steps, new_list) ==
    [i \in 1 .. new_list |->
        IF i = new_list
        THEN SubSeq(lists[self_steps], 1, Len(lists[self_steps]) - 1)
        ELSE lists[i]]

\* with_depth_limit and include_paths, lines 199 and 207: self._steps.copy().
copy_steps(lists, self_steps, new_list) ==
    [i \in 1 .. new_list |->
        IF i = new_list THEN lists[self_steps] ELSE lists[i]]

InFlight == Cardinality({c \in Callers : callers[c].pc = "new"})

\* The application constructs a GraphTraversal over its list of nodes
\* (create_traversal_from_nodes) and shares it with the callers.
Create ==
    /\ trav = <<>>
    /\ trav' = Append(trav, GraphTraversal_init(1, Len(stepLists) + 1))
    /\ stepLists' = Append(stepLists, <<>>)
    /\ published' = published \cup {Len(trav) + 1}
    /\ UNCHANGED <<nm, st, heap, callers, path, codec, cls, plans, terminal, drv>>

\* The application goes on using the list it passed to the constructor.
AppendStartNode(x) ==
    /\ Len(heap[1]) < MaxNodes
    /\ heap' = [heap EXCEPT ![1] = Append(@, x)]
    /\ UNCHANGED <<nm, st, stepLists, trav, published, callers, path, codec, cls, plans, terminal, drv>>

\* add_step, lines 179-185: the step is constructed first, and its
\* __post_init__ may raise before anything else happens.
Call_add_step(c, self, r, t, d, lo, hi) ==
    LET step == TraversalStep(r, t, d, lo, hi)
        e == TraversalStep_post_init(step)
    IN  /\ callers[c].pc = "idle"
        /\ Len(trav) + InFlight < MaxTrav
        /\ callers' = [callers EXCEPT ![c] =
              [pc |-> IF e = NoError THEN "new" ELSE "raised",
               op |-> "add_step", self |-> self, step |-> step, n |-> 0,
               new |-> 0, error |-> e]]
        /\ UNCHANGED <<nm, st, heap, stepLists, trav, published, path, codec, cls, plans, terminal, drv>>

\* A variant of with_depth_limit without the test on lines 195-196.
Call_with_depth_limit_unchecked(c, self, n) ==
    /\ callers[c].pc = "idle"
    /\ Len(trav) + InFlight < MaxTrav
    /\ callers' = [callers EXCEPT ![c] =
          [pc |-> "new", op |-> "with_depth_limit", self |-> self,
           step |-> DefaultStep, n |-> n, new |-> 0, error |-> NoError]]
    /\ UNCHANGED <<nm, st, heap, stepLists, trav, published, path, codec, cls, plans, terminal, drv>>

\* with_depth_limit, lines 195-196.
Call_with_depth_limit(c, self, n) ==
    /\ callers[c].pc = "idle"
    /\ Len(trav) + InFlight < MaxTrav
    /\ callers' = [callers EXCEPT ![c] =
          [pc |-> IF n < 0 THEN "raised" ELSE "new",
           op |-> "with_depth_limit", self |-> self, step |-> DefaultStep,
           n |-> n, new |-> 0,
           error |-> IF n < 0 THEN ValueError("Maximum depth must be non-negative")
                     ELSE NoError]]
    /\ UNCHANGED <<nm, st, heap, stepLists, trav, published, path, codec, cls, plans, terminal, drv>>

\* include_paths takes no argument and cannot raise.
Call_include_paths(c, self) ==
    /\ callers[c].pc = "idle"
    /\ Len(trav) + InFlight < MaxTrav
    /\ callers' = [callers EXCEPT ![c] =
          [pc |-> "new", op |-> "include_paths", self |-> self,
           step |-> DefaultStep, n |-> 0, new |-> 0, error |-> NoError]]
    /\ UNCHANGED <<nm, st, heap, stepLists, trav, published, path, codec, cls, plans, terminal, drv>>

\* new_traversal = GraphTraversal(self._start_nodes), lines 187, 198, 206.
NewTraversal(c) ==
    /\ callers[c].pc = "new"
    /\ trav' = Append(trav, GraphTraversal_init(trav[callers[c].self]._start_nodes,
                                                Len(stepLists) + 1))
    /\ stepLists' = Append(stepLists, <<>>)
    /\ callers' = [callers EXCEPT ![c].pc = "steps", ![c].new = Len(trav) + 1]
    /\ UNCHANGED <<nm, st, heap, published, path, codec, cls, plans, terminal, drv>>

\* new_traversal._steps = ..., lines 188, 199, 207.
SetSteps(c) ==
    LET k == callers[c]
        new_list == Len(stepLists) + 1
    IN  /\ k.pc = "steps"
        /\ stepLists' =
              IF k.op = "add_step"
              THEN add_step_steps(stepLists, trav[k.self]._steps, new_list, k.step)
              ELSE copy_steps(stepLists, trav[k.self]._steps, new_list)
        /\ trav' = [trav EXCEPT ![k.new]._steps = new_list]
        /\ callers' = [callers EXCEPT ![c].pc = "depth"]
        /\ UNCHANGED <<nm, st, heap, published, path, codec, cls, plans, terminal, drv>>

\* new_traversal._max_total_depth = ..., lines 189, 200, 208.
SetDepth(c) ==
    LET k == callers[c]
    IN  /\ k.pc = "depth"
        /\ trav' = [trav EXCEPT ![k.new]._max_total_depth =
              IF k.op = "with_depth_limit" THEN k.n
              ELSE trav[k.self]._max_total_depth]
        /\ callers' = [callers EXCEPT ![c].pc = "paths"]
        /\ UNCHANGED <<nm, st, heap, stepLists, published, path, codec, cls, plans, terminal, drv>>

\* new_traversal._include_paths = ..., lines 190, 201, 209.
SetPaths(c) ==
    LET k == callers[c]
    IN  /\ k.pc = "paths"
        /\ trav' = [trav EXCEPT ![k.new]._include_paths =
              IF k.op = "include_paths" THEN TRUE
              ELSE trav[k.self]._include_paths]
        /\ callers' = [callers EXCEPT ![c].pc = "ret"]
        /\ UNCHANGED <<nm, st, heap, stepLists, published, path, codec, cls, plans, terminal, drv>>

\* return new_traversal: the caller now holds the new value and may share it.
Return(c) ==
    /\ callers[c].pc = "ret"
    /\ published' = published \cup {callers[c].new}
    /\ callers' = [callers EXCEPT ![c] = Idle]
    /\ UNCHANGED <<nm, st, heap, stepLists, trav, path, codec, cls, plans, terminal, drv>>

\* The ValueError reaches the caller: no traversal was created.
Raised(c) ==
    /\ callers[c].pc = "raised"
    /\ callers' = [callers EXCEPT ![c] = Idle]
    /\ UNCHANGED <<nm, st, heap, stepLists, trav, published, path, codec, cls, plans, terminal, drv>>

NextTraversal ==
    \/ Create
    \/ AppendStartNode("n2")
    \/ \E c \in Callers, self \in published, d \in StepDepthArgs :
          Call_add_step(c, self, "KNOWS", "Person", "outgoing", d[1], d[2])
    \/ \E c \in Callers, self \in published, n \in BuilderDepthArgs :
          Call_with_depth_limit(c, self, n)
    \/ \E c \in Callers, self \in published : Call_include_paths(c, self)
    \/ \E c \in Callers : NewTraversal(c)
    \/ \E c \in Callers : SetSteps(c)
    \/ \E c \in Callers : SetDepth(c)
    \/ \E c \in Callers : SetPaths(c)
    \/ \E c \in Callers : Return(c)
    \/ \E c \in Callers : Raised(c)

\* -------------------------------------------------------- TraversalPath

MaxPathLen == 2     \* longest list handed to TraversalPath, and appended to

Rels == {"r1", "r2"}

RECURSIVE SeqsUpTo(_, _)
SeqsUpTo(S, n) ==
    IF n = 0 THEN {<<>>}
    ELSE LET shorter == SeqsUpTo(S, n - 1)
         IN  shorter \cup {Append(q, x) : q \in shorter, x \in S}

FrozenInstanceError == [type |-> "FrozenInstanceError", msg |-> "cannot assign to field"]

\* TraversalPath.__post_init__, on the contents of the two lists.
TraversalPath_post_init(nodes, relationships) ==
    IF Len(nodes) = 0
    THEN ValueError("Path must contain at least one node")
    ELSE IF Len(relationships) # Len(nodes) - 1
    THEN ValueError("Path must have exactly one fewer relationship than nodes")
    ELSE NoError

NoPath == [state |-> "none", nodes |-> 0, relationships |-> 0, error |-> NoError]

\* A caller builds two lists and constructs a TraversalPath from them: the
\* dataclass stores the two list objects it is given.
ConstructPath(ns, rs) ==
    LET e == TraversalPath_post_init(ns, rs)
    IN  /\ path.state = "none"
        /\ heap' = heap \o <<ns, rs>>
        /\ path' = [state |-> IF e = NoError THEN "built" ELSE "failed",
                    nodes |-> Len(heap) + 1, relationships |-> Len(heap) + 2,
                    error |-> e]
        /\ UNCHANGED <<nm, st, stepLists, trav, published, callers, codec, cls, plans, terminal, drv>>

\* path.nodes.append(x): the field is frozen, the list it names is not.
AppendPathNode(x) ==
    /\ path.state = "built"
    /\ Len(heap[path.nodes]) <= MaxPathLen
    /\ heap' = [heap EXCEPT ![path.nodes] = Append(@, x)]
    /\ UNCHANGED <<nm, st, stepLists, trav, published, callers, path, codec, cls, plans, terminal, drv>>

\* path.relationships.append(x)
AppendPathRelationship(x) ==
    /\ path.state = "built"
    /\ Len(heap[path.relationships]) <= MaxPathLen
    /\ heap' = [heap EXCEPT ![path.relationships] = Append(@, x)]
    /\ UNCHANGED <<nm, st, stepLists, trav, published, callers, path, codec, cls, plans, terminal, drv>>

\* path.nodes = ... or path.relationships = ...: frozen=True makes the
\* assignment raise, and the path keeps its two lists.
AssignPathField ==
    /\ path.state = "built"
    /\ path' = [path EXCEPT !.error = FrozenInstanceError]
    /\ UNCHANGED <<nm, st, heap, stepLists, trav, published, callers, codec, cls, plans, terminal, drv>>

NextPath ==
    \/ path.state = "none" /\ \E ns \in SeqsUpTo(Nodes, MaxPathLen),
                                  rs \in SeqsUpTo(Rels, MaxPathLen) :
          ConstructPath(ns, rs)
    \/ \E x \in Nodes : AppendPathNode(x)
    \/ \E x \in Rels : AppendPathRelationship(x)
    \/ AssignPathField

\* ---------------------------------------------------------- entity codec

NumVals == 2        \* distinct payloads a field value is drawn from

\* The fields of an entity type: the inherited id and two declared fields.
ID == <<"i", "d">>
AGE == <<"a", "g", "e">>
HOME == <<"h", "o", "m", "e">>

FieldOrder == <<ID, AGE, HOME>>

Fields == {ID, AGE, HOME}

\* An explicit storage label that is not the field's own name.
OtherLabel(field_name) == <<"L", "_">> \o field_name

\* An explicit relationship type.
HAS_HOME == <<"H", "A", "S", "_", "H", "O", "M", "E">>

\* Python values.  kind is "none" for None, "str"/"int" for scalars, "list"
\* for a list of scalars, "obj"/"objs" for a structured value (a dataclass
\* or model instance) and a list of them, "dict"/"dicts" for what
\* model_dump makes of those, and "json:<kind>" for the text json.dumps
\* makes of a value of that kind.  v tells two values of a kind apart.
Val(kind, v) == [kind |-> kind, v |-> v]

NoneVal == Val("none", 0)

\* The declared shape of a field and the values an instance may hold in it.
ShapeKind(shape) ==
    CASE shape = "scalar" -> "int"
      [] shape = "collection" -> "list"
      [] shape = "structured" -> "obj"
      [] shape = "structured_collection" -> "objs"

\* PropertyFieldInfo as the codec reads it (info = FALSE: get_field_info
\* returns None), with the declared shape and requiredness of the field.
FieldInfo(info, field_type, shape, label, storage_type, relationship_type, private_relationship, required) ==
    [info |-> info, field_type |-> field_type, shape |-> shape, label |-> label,
     storage_type |-> storage_type, relationship_type |-> relationship_type,
     private_relationship |-> private_relationship, required |-> required]

IdInfo == FieldInfo(FALSE, "none", "scalar", None, "none", None, FALSE, TRUE)

\* The ways a field may be declared.
Declarations(field_name) ==
    {FieldInfo(FALSE, "none", "scalar", None, "none", None, FALSE, r) :
        r \in BOOLEAN}
    \cup
    {FieldInfo(TRUE, "simple", sh, l, "none", None, FALSE, r) :
        sh \in {"scalar", "collection"},
        l \in {None, field_name, OtherLabel(field_name)}, r \in BOOLEAN}
    \cup
    {FieldInfo(TRUE, "embedded", sh, l, sto, None, FALSE, r) :
        sh \in {"structured", "collection"},
        l \in {None, OtherLabel(field_name)}, sto \in {"json", "other"},
        r \in BOOLEAN}
    \cup
    {FieldInfo(TRUE, "related_node", sh, l, "none", rt, pr, r) :
        sh \in {"structured", "structured_collection"},
        l \in {None, OtherLabel(field_name)},
        rt \in {None, HAS_HOME}, pr \in BOOLEAN, r \in BOOLEAN}

\* The entity types: model_fields of each.
EntityTypes ==
    {[f \in Fields |-> IF f = ID THEN IdInfo ELSE IF f = AGE THEN a ELSE h] :
        a \in Declarations(AGE), h \in Declarations(HOME)}

\* The values a field of an instance may hold.
FieldValues(fd) ==
    {Val(ShapeKind(fd.shape), v) : v \in 1 .. NumVals}
        \cup (IF fd.required THEN {} ELSE {NoneVal})

\* The instances of an entity type.
Instances(type) ==
    {[f \in Fields |-> IF f = ID THEN Val("str", 1) ELSE IF f = AGE THEN a ELSE h] :
        a \in FieldValues(type[AGE]), h \in FieldValues(type[HOME])}

\* pydantic's model_dump of one value: structured values become dicts.
model_dump_value(x) ==
    CASE x.kind = "obj" -> Val("dict", x.v)
      [] x.kind = "objs" -> Val("dicts", x.v)
      [] OTHER -> x

\* json.dumps(value, default=str): a text that encodes the value.
json_dumps(x) ==
    CASE x.kind = "int" -> Val("json_int", x.v)
      [] x.kind = "str" -> Val("json_str", x.v)
      [] x.kind = "list" -> Val("json_list", x.v)
      [] x.kind = "dict" -> Val("json_dict", x.v)
      [] x.kind = "dicts" -> Val("json_dicts", x.v)

IsJson(x) == x.kind \in {"json_int", "json_str", "json_list", "json_dict", "json_dicts"}

\* json.loads of a text json.dumps produced: the value it encodes.
json_loads(x) ==
    CASE x.kind = "json_int" -> Val("int", x.v)
      [] x.kind = "json_str" -> Val("str", x.v)
      [] x.kind = "json_list" -> Val("list", x.v)
      [] x.kind = "json_dict" -> Val("dict", x.v)
      [] x.kind = "json_dicts" -> Val("dicts", x.v)

\* Python dicts: functions from keys to values.
EmptyDict == [k \in {} |-> NoneVal]

Put(d, k, x) == [j \in DOMAIN d \cup {k} |-> IF j = k THEN x ELSE d[j]]

\* get_relationship_type_for_field: the explicit type, else the synthetic
\* name of the field.
get_relationship_type_for_field(field_name, relationship_type) ==
    IF relationship_type # None THEN relationship_type
    ELSE property_name_to_relationship_type_name(field_name)

\* field_info.label or field_name
LabelOrName(fd, field_name) ==
    IF fd.label = None \/ fd.label = <<>> THEN field_name ELSE fd.label

\* A variant of the loop body that also writes a related-node field into
\* the property map, under its storage label.
serialize_node_field_related_inline(type, maps, field_name, field_value) ==
    LET field_info == type[field_name]
    IN  IF field_value = NoneVal THEN maps
        ELSE IF ~field_info.info
        THEN [maps EXCEPT !.simple_props = Put(@, field_name, field_value)]
        ELSE IF field_info.field_type = "embedded"
        THEN [maps EXCEPT !.simple_props =
                 Put(@, LabelOrName(field_info, field_name),
                     IF field_info.storage_type = "json"
                     THEN json_dumps(field_value) ELSE field_value)]
        ELSE [maps EXCEPT !.simple_props =
                 Put(@, LabelOrName(field_info, field_name), field_value)]

\* serialize_node, lines 76-110: the loop body for one field of the dump,
\* on the pair of maps built so far.
serialize_node_field(type, maps, field_name, field_value) ==
    LET field_info == type[field_name]
    IN  IF field_value = NoneVal THEN maps
        ELSE IF ~field_info.info
        THEN [maps EXCEPT !.simple_props = Put(@, field_name, field_value)]
        ELSE IF field_info.field_type = "simple"
        THEN [maps EXCEPT !.simple_props =
                 Put(@, LabelOrName(field_info, field_name), field_value)]
        ELSE IF field_info.field_type = "embedded"
        THEN [maps EXCEPT !.simple_props =
                 Put(@, LabelOrName(field_info, field_name),
                     IF field_info.storage_type = "json"
                     THEN json_dumps(field_value) ELSE field_value)]
        ELSE IF field_info.field_type = "related_node"
        THEN [maps EXCEPT !.complex_props =
                 Put(@, field_name,
                     [value |-> field_value,
                      relationship_type |->
                          get_relationship_type_for_field(
                              field_name, field_info.relationship_type),
                      private |-> field_info.private_relationship,
                      field_info |-> field_info])]
        ELSE maps

RECURSIVE serialize_node_loop(_, _, _, _)
serialize_node_loop(type, node, i, maps) ==
    IF i > Len(FieldOrder) THEN maps
    ELSE serialize_node_loop(type, node, i + 1,
            serialize_node_field(type, maps, FieldOrder[i],
                                 model_dump_value(node[FieldOrder[i]])))

\* Neo4jSerializer.serialize_node
serialize_node(type, node) ==
    LET maps == serialize_node_loop(type, node, 1,
                    [simple_props |-> EmptyDict, complex_props |-> EmptyDict])
    IN  [id |-> node[ID], properties |-> maps.simple_props,
         complex_properties |-> maps.complex_props]

\* A variant of the loop body without the test for None on line 136.
serialize_relationship_field_keep_none(type, properties, field_name, field_value) ==
    LET field_info == type[field_name]
    IN  IF ~field_info.info \/ field_info.field_type = "simple"
        THEN Put(properties,
                 IF field_info.info THEN field_info.label ELSE field_name,
                 field_value)
        ELSE IF field_info.field_type = "embedded"
        THEN Put(properties, LabelOrName(field_info, field_name),
                 IF field_info.storage_type = "json" /\ field_value # NoneVal
                 THEN json_dumps(field_value) ELSE field_value)
        ELSE properties

\* serialize_relationship, lines 135-152: the loop body for one field.
serialize_relationship_field(type, properties, field_name, field_value) ==
    LET field_info == type[field_name]
    IN  IF field_value = NoneVal THEN properties
        ELSE IF ~field_info.info \/ field_info.field_type = "simple"
        THEN Put(properties,
                 IF field_info.info THEN field_info.label ELSE field_name,
                 field_value)
        ELSE IF field_info.field_type = "embedded"
        THEN Put(properties, LabelOrName(field_info, field_name),
                 IF field_info.storage_type = "json"
                 THEN json_dumps(field_value) ELSE field_value)
        ELSE properties

RECURSIVE serialize_relationship_loop(_, _, _, _)
serialize_relationship_loop(type, relationship, i, properties) ==
    IF i > Len(FieldOrder) THEN properties
    ELSE serialize_relationship_loop(type, relationship, i + 1,
            serialize_relationship_field(type, properties, FieldOrder[i],
                model_dump_value(relationship[FieldOrder[i]])))

\* Neo4jSerializer.serialize_relationship
serialize_relationship(type, relationship) ==
    [id |-> relationship[ID],
     properties |-> serialize_relationship_loop(type, relationship, 1, EmptyDict),
     complex_properties |-> EmptyDict]

\* The outcome of a call that returns an entity or raises.
Returned(entity) == [ok |-> TRUE, entity |-> entity, error |-> NoError]

Raises(type, msg) ==
    [ok |-> FALSE, entity |-> [f \in Fields |-> NoneVal],
     error |-> [type |-> type, msg |-> msg]]

\* pydantic's validation of one keyword argument against the declared
\* shape of its field: dicts are built back into structured values.
Validates(fd, x) ==
    \/ x = NoneVal /\ ~fd.required
    \/ fd.shape = "scalar" /\ x.kind \in {"int", "str"}
    \/ fd.shape = "collection" /\ x.kind = "list"
    \/ fd.shape = "structured" /\ x.kind \in {"obj", "dict"}
    \/ fd.shape = "structured_collection" /\ x.kind \in {"objs", "dicts"}

Validated(x) ==
    CASE x.kind = "dict" -> Val("obj", x.v)
      [] x.kind = "dicts" -> Val("objs", x.v)
      [] OTHER -> x

\* entity_type(**data), lines 196 and 224: keywords must be strings, a
\* field without data takes its default (None) unless it is required, and
\* data that names no field is ignored.
Construct(type, data) ==
    IF None \in DOMAIN data
    THEN Raises("TypeError", "keywords must be strings")
    ELSE IF \E f \in Fields : f \notin DOMAIN data /\ type[f].required
    THEN Raises("ValidationError", "Field required")
    ELSE IF \E f \in Fields \cap DOMAIN data : ~Validates(type[f], data[f])
    THEN Raises("ValidationError", "Input should be a valid value")
    ELSE Returned([f \in Fields |->
            IF f \in DOMAIN data THEN Validated(data[f]) ELSE NoneVal])

\* deserialize_node, lines 183-193: what the loop over the complex
\* properties leaves under one key of node_data.
deserialize_node_entry(node_type, node_data, complex_properties, field_name) ==
    LET field_info == node_type[field_name]
    IN  IF field_info.info /\ field_info.field_type = "embedded"
        THEN IF field_info.storage_type = "json"
             THEN json_loads(node_data[field_name])
             ELSE node_data[field_name]
        ELSE complex_properties[field_name]

\* deserialize_node, lines 180-193: node_data as the constructor on line
\* 196 receives it.
deserialize_node_data(record, node_type, complex_properties) ==
    [k \in DOMAIN record |->
        IF k \in DOMAIN complex_properties
        THEN deserialize_node_entry(node_type, record, complex_properties, k)
        ELSE record[k]]

\* Neo4jSerializer.deserialize_node.  An empty complex_properties is falsy.
deserialize_node(record, node_type, complex_properties) ==
    LET touched == DOMAIN complex_properties \cap DOMAIN record
    IN  IF \E f \in touched : f \notin Fields
        THEN Raises("KeyError", "model_fields")
        ELSE IF \E f \in touched :
                /\ node_type[f].info /\ node_type[f].field_type = "embedded"
                /\ node_type[f].storage_type = "json"
                /\ ~IsJson(record[f])
        THEN Raises("JSONDecodeError", "json.loads")
        ELSE Construct(node_type,
                deserialize_node_data(record, node_type, complex_properties))

\* deserialize_relationship, lines 214-221: rel_data as the constructor on
\* line 224 receives it.
deserialize_relationship_data(record, relationship_type) ==
    [k \in DOMAIN record |->
        IF /\ relationship_type[k].info
           /\ relationship_type[k].field_type = "embedded"
           /\ relationship_type[k].storage_type = "json"
        THEN json_loads(record[k])
        ELSE record[k]]

\* Neo4jSerializer.deserialize_relationship
deserialize_relationship(record, relationship_type) ==
    IF \E k \in DOMAIN record : k \notin Fields
    THEN Raises("KeyError", "model_fields")
    ELSE IF \E k \in DOMAIN record :
            /\ relationship_type[k].info
            /\ relationship_type[k].field_type = "embedded"
            /\ relationship_type[k].storage_type = "json"
            /\ ~IsJson(record[k])
    THEN Raises("JSONDecodeError", "json.loads")
    ELSE Construct(relationship_type,
            deserialize_relationship_data(record, relationship_type))

\* The related values an entity holds, by field name: what the caller
\* fetched for its related-node fields.
related(type, e) ==
    [f \in {g \in Fields : /\ type[g].info
                           /\ type[g].field_type = "related_node"
                           /\ e[g] # NoneVal} |-> e[f]]

\* The dict objects a wire record holds, by object id; 0 is no object.
NoMaps == [properties |-> 0, complex_properties |-> 0]

\* A variant that hands out the maps of the first call again.
serialize_node_maps_reused(allocated) ==
    [properties |-> 1, complex_properties |-> 2]

\* serialize_node, lines 73-74: simple_props = {} and complex_props = {}
\* are two new dict objects, when allocated objects exist already.
serialize_node_maps(allocated) ==
    [properties |-> allocated + 1, complex_properties |-> allocated + 2]

\* serialize_relationship, line 134: properties = {} is a new dict object;
\* a SerializedRelationship has no complex-property map.
serialize_relationship_maps(allocated) ==
    [properties |-> allocated + 1, complex_properties |-> 0]

NoCodecCall ==
    [op |-> "none", type |-> [f \in Fields |-> IdInfo],
     entity |-> [f \in Fields |-> NoneVal],
     wire |-> [id |-> NoneVal, properties |-> EmptyDict,
               complex_properties |-> EmptyDict],
     complex_data |-> EmptyDict, kwargs |-> EmptyDict,
     second |-> [id |-> NoneVal, properties |-> EmptyDict,
                 complex_properties |-> EmptyDict],
     objects |-> [allocated |-> 0, first |-> NoMaps, second |-> NoMaps],
     result |-> Raises("none", "none")]

\* An entity type is declared: its fields and their descriptors are fixed
\* from then on.
Declare(type) ==
    /\ codec.op = "none"
    /\ codec' = [codec EXCEPT !.op = "declared", !.type = type]
    /\ UNCHANGED <<nm, st, heap, stepLists, trav, published, callers, path, cls, plans, terminal, drv>>

\* A node of the declared type is serialized.
SerializeNode(e) ==
    /\ codec.op = "declared"
    /\ codec' = [codec EXCEPT !.op = "serialize_node", !.entity = e,
                              !.wire = serialize_node(codec.type, e),
                              !.objects.first =
                                  serialize_node_maps(codec.objects.allocated),
                              !.objects.allocated = @ + 2]
    /\ UNCHANGED <<nm, st, heap, stepLists, trav, published, callers, path, cls, plans, terminal, drv>>

\* A relationship of the declared type is serialized.
SerializeRelationship(e) ==
    /\ codec.op = "declared"
    /\ codec' = [codec EXCEPT !.op = "serialize_relationship", !.entity = e,
                              !.wire = serialize_relationship(codec.type, e),
                              !.objects.first =
                                  serialize_relationship_maps(codec.objects.allocated),
                              !.objects.allocated = @ + 1]
    /\ UNCHANGED <<nm, st, heap, stepLists, trav, published, callers, path, cls, plans, terminal, drv>>

\* The node just serialized is serialized a second time.
SerializeNodeAgain ==
    /\ codec.op = "serialize_node"
    /\ codec' = [codec EXCEPT !.op = "serialize_node_again",
                              !.second = serialize_node(codec.type, codec.entity),
                              !.objects.second =
                                  serialize_node_maps(codec.objects.allocated),
                              !.objects.allocated = @ + 2]
    /\ UNCHANGED <<nm, st, heap, stepLists, trav, published, callers, path, cls, plans, terminal, drv>>

\* The relationship just serialized is serialized a second time.
SerializeRelationshipAgain ==
    /\ codec.op = "serialize_relationship"
    /\ codec' = [codec EXCEPT !.op = "serialize_relationship_again",
                              !.second = serialize_relationship(codec.type,
                                                                codec.entity),
                              !.objects.second =
                                  serialize_relationship_maps(codec.objects.allocated),
                              !.objects.allocated = @ + 1]
    /\ UNCHANGED <<nm, st, heap, stepLists, trav, published, callers, path, cls, plans, terminal, drv>>

\* A node is serialized, and its property map is deserialized as the row,
\* with the related values the node held as complex-property data.
RoundTripNode(e) ==
    LET wire == serialize_node(codec.type, e)
    IN  /\ codec.op = "declared"
        /\ codec' = [codec EXCEPT !.op = "round_trip_node", !.entity = e,
                        !.wire = wire,
                        !.result = deserialize_node(wire.properties, codec.type,
                                                    related(codec.type, e))]
        /\ UNCHANGED <<nm, st, heap, stepLists, trav, published, callers, path, cls, plans, terminal, drv>>

\* A relationship is serialized, and its property map is deserialized.
RoundTripRelationship(e) ==
    LET wire == serialize_relationship(codec.type, e)
    IN  /\ codec.op = "declared"
        /\ codec' = [codec EXCEPT !.op = "round_trip_relationship",
                        !.entity = e, !.wire = wire,
                        !.result = deserialize_relationship(wire.properties,
                                                            codec.type)]
        /\ UNCHANGED <<nm, st, heap, stepLists, trav, published, callers, path, cls, plans, terminal, drv>>

\* What the serializers store for a present value of a field.
StoredValue(fd) ==
    LET x == model_dump_value(Val(ShapeKind(fd.shape), 1))
    IN  IF fd.info /\ fd.field_type = "embedded" /\ fd.storage_type = "json"
        THEN json_dumps(x) ELSE x

\* The rows a caller may pass: the id, and for any of the other fields the
\* stored value under the storage label of the field.
Rows(type) ==
    {[k \in {ID} \cup {LabelOrName(type[f], f) : f \in K} |->
         IF k = ID THEN Val("str", 1)
         ELSE StoredValue(type[CHOOSE f \in K : LabelOrName(type[f], f) = k])] :
        K \in SUBSET (Fields \ {ID})}

\* The pre-fetched complex-property data a caller may pass, by field name.
ComplexData(type) ==
    {[f \in K |-> Val(ShapeKind(type[f].shape), 1)] :
        K \in SUBSET (Fields \ {ID})}

\* The exceptions the deserializers raise before they reach the constructor.
EarlyErrors == {"KeyError", "JSONDecodeError"}

\* A row is deserialized as a node, with complex-property data.
DeserializeNode(row, complex_properties) ==
    LET result == deserialize_node(row, codec.type, complex_properties)
    IN  /\ codec.op = "declared"
        /\ codec' = [codec EXCEPT !.op = "deserialize_node",
                        !.wire.properties = row,
                        !.complex_data = complex_properties,
                        !.kwargs = IF result.error.type \in EarlyErrors
                                   THEN EmptyDict
                                   ELSE deserialize_node_data(row, codec.type,
                                            complex_properties),
                        !.result = result]
        /\ UNCHANGED <<nm, st, heap, stepLists, trav, published, callers, path, cls, plans, terminal, drv>>

\* A row is deserialized as a relationship.
DeserializeRelationship(row) ==
    LET result == deserialize_relationship(row, codec.type)
    IN  /\ codec.op = "declared"
        /\ codec' = [codec EXCEPT !.op = "deserialize_relationship",
                        !.wire.properties = row,
                        !.kwargs = IF result.error.type \in EarlyErrors
                                   THEN EmptyDict
                                   ELSE deserialize_relationship_data(row,
                                            codec.type),
                        !.result = result]
        /\ UNCHANGED <<nm, st, heap, stepLists, trav, published, callers, path, cls, plans, terminal, drv>>

NextCodec ==
    \/ SerializeNodeAgain
    \/ SerializeRelationshipAgain
    \/ codec.op = "declared" /\ \E row \in Rows(codec.type) :
          \E complex_properties \in ComplexData(codec.type) :
              DeserializeNode(row, complex_properties)
    \/ codec.op = "declared" /\ \E row \in Rows(codec.type) :
          DeserializeRelationship(row)
    \/ codec.op = "none" /\ \E type \in EntityTypes : Declare(type)
    \/ codec.op = "declared" /\ \E e \in Instances(codec.type) : SerializeNode(e)
    \/ codec.op = "declared" /\ \E e \in Instances(codec.type) :
          SerializeRelationship(e)
    \/ codec.op = "declared" /\ \E e \in Instances(codec.type) : RoundTripNode(e)
    \/ codec.op = "declared" /\ \E e \in Instances(codec.type) :
          RoundTripRelationship(e)

\* ------------------------------------------------- type classification

MaxTypeDepth == 2   \* deepest nesting of generic types drawn

\* A declared type: a plain class, or a generic alias with its origin and
\* its type arguments.
Atom(name) == [origin |-> "none", name |-> name, args |-> <<>>]

Generic(origin, args) == [origin |-> origin, name |-> "generic", args |-> args]

\* typing.get_origin and typing.get_args
get_origin(type_obj) == type_obj.origin

get_args(type_obj) == type_obj.args

\* (str, int, float, bool, bytes), line 221
BasicTypes == {Atom(n) : n \in {"str", "int", "float", "bool", "bytes"}}

\* (datetime, date, time), line 226
DatetimeTypes == {Atom(n) : n \in {"datetime", "date", "time"}}

\* A class that is none of these: a structured value type.
StructuredTypes == {Atom("Address")}

\* (list, tuple, set), lines 232, 253 and 264
CollectionOrigins == {"list", "tuple", "set"}

Origins == CollectionOrigins \cup {"dict"}

Atoms == BasicTypes \cup DatetimeTypes \cup StructuredTypes

\* The types a field may be declared with: classes, generic aliases without
\* arguments (typing.List), with one argument (nested up to depth d) and
\* with two arguments.
RECURSIVE TypesUpTo(_)
TypesUpTo(d) ==
    IF d = 0 THEN Atoms
    ELSE LET T == TypesUpTo(d - 1)
         IN  T \cup {Generic(o, <<>>) : o \in Origins}
               \cup {Generic(o, <<t>>) : o \in Origins, t \in T}
               \cup {Generic(o, <<a, b>>) : o \in Origins, a \in Atoms, b \in Atoms}

DeclaredTypes == TypesUpTo(MaxTypeDepth)

\* GraphDataModel.is_simple_type
RECURSIVE is_simple_type(_)
is_simple_type(type_obj) ==
    IF type_obj \in BasicTypes THEN TRUE
    ELSE IF type_obj \in DatetimeTypes THEN TRUE
    ELSE IF /\ get_origin(type_obj) \in CollectionOrigins
            /\ Len(get_args(type_obj)) = 1
    THEN is_simple_type(get_args(type_obj)[1])
    ELSE FALSE

\* A variant that takes every type for complex.
is_complex_type_always(type_obj) == TRUE

\* GraphDataModel.is_complex_type
is_complex_type(type_obj) == ~is_simple_type(type_obj)

\* GraphDataModel.is_collection_of_simple
is_collection_of_simple(type_obj) ==
    IF /\ get_origin(type_obj) \in CollectionOrigins
       /\ Len(get_args(type_obj)) = 1
    THEN is_simple_type(get_args(type_obj)[1])
    ELSE FALSE

\* A variant that tests the element with is_simple_type.
is_collection_of_complex_simple_element(type_obj) ==
    IF /\ get_origin(type_obj) \in CollectionOrigins
       /\ Len(get_args(type_obj)) = 1
    THEN is_simple_type(get_args(type_obj)[1])
    ELSE FALSE

\* GraphDataModel.is_collection_of_complex
is_collection_of_complex(type_obj) ==
    IF /\ get_origin(type_obj) \in CollectionOrigins
       /\ Len(get_args(type_obj)) = 1
    THEN is_complex_type(get_args(type_obj)[1])
    ELSE FALSE

NoClassification ==
    [declared |-> FALSE, type |-> Atom("str"), results |-> <<>>,
     error |-> NoError]

\* A field is declared with a type.
DeclareType(type_obj) ==
    /\ ~cls.declared
    /\ cls' = [cls EXCEPT !.declared = TRUE, !.type = type_obj]
    /\ UNCHANGED <<nm, st, heap, stepLists, trav, published, callers, path,
                   codec, plans, terminal, drv>>

\* One of the predicates returns for the declared type; none of them has a
\* raise statement.
Returns(predicate, value) ==
    /\ cls.declared
    /\ predicate \notin DOMAIN cls.results
    /\ cls' = [cls EXCEPT !.results = Put(@, predicate, value),
                          !.error = NoError]
    /\ UNCHANGED <<nm, st, heap, stepLists, trav, published, callers, path,
                   codec, plans, terminal, drv>>

Call_is_simple_type == Returns("is_simple_type", is_simple_type(cls.type))

Call_is_complex_type == Returns("is_complex_type", is_complex_type(cls.type))

Call_is_collection_of_simple ==
    Returns("is_collection_of_simple", is_collection_of_simple(cls.type))

Call_is_collection_of_complex ==
    Returns("is_collection_of_complex", is_collection_of_complex(cls.type))

NextClassify ==
    \/ ~cls.declared /\ \E type_obj \in DeclaredTypes : DeclareType(type_obj)
    \/ Call_is_simple_type
    \/ Call_is_complex_type
    \/ Call_is_collection_of_simple
    \/ Call_is_collection_of_complex

\* ------------------------------------------------------------ query plans

MaxPlans == 3       \* most query plan objects built in one behaviour

\* The nodes of the queried type in the store, in the order the store
\* returns them.
StoredRows == <<1, 2, 3>>

\* The predicates and counts the callers pass.
Predicates == {"gt1", "even", "gt3"}

Counts == {1, 2}

Satisfies(predicate, x) ==
    CASE predicate = "gt1" -> x > 1
      [] predicate = "even" -> x % 2 = 0
      [] predicate = "gt3" -> x > 3

\* The operations of a plan.
Filter(predicate) == [op |-> "Filter", predicate |-> predicate, n |-> 0]

OrderBy(direction) == [op |-> "OrderBy", predicate |-> direction, n |-> 0]

Skip(n) == [op |-> "Skip", predicate |-> "none", n |-> n]

Take(n) == [op |-> "Take", predicate |-> "none", n |-> n]

\* One operation applied to the rows so far.
ApplyOperation(rows, o) ==
    CASE o.op = "Filter" ->
             SelectSeq(rows, LAMBDA x : Satisfies(o.predicate, x))
      [] o.op = "OrderBy" ->
             IF o.predicate = "ascending"
             THEN SortSeq(rows, LAMBDA a, b : a < b)
             ELSE SortSeq(rows, LAMBDA a, b : a > b)
      [] o.op = "Skip" -> SubSeq(rows, o.n + 1, Len(rows))
      [] o.op = "Take" -> SubSeq(rows, 1, Min(o.n, Len(rows)))

\* The rows a plan yields: its operations applied in the order they were
\* appended.
RECURSIVE ExecuteFrom(_, _, _)
ExecuteFrom(operations, i, rows) ==
    IF i > Len(operations) THEN rows
    ELSE ExecuteFrom(operations, i + 1, ApplyOperation(rows, operations[i]))

Execute(operations) == ExecuteFrom(operations, 1, StoredRows)

NotRun == [run |-> FALSE, rows |-> <<>>]

\* The operations of the plan derived from one with the given operations:
\* order_by replaces the order, every other call appends.
derived_operations(operations, o) ==
    IF o.op = "OrderBy"
    THEN Append(SelectSeq(operations, LAMBDA q : q.op # "OrderBy"), o)
    ELSE Append(operations, o)

\* A variant of the builder that appends to the receiver's own operations
\* and hands them to the new plan.
derive_in_place(ps, p, o) ==
    Append([ps EXCEPT ![p].ops = derived_operations(@, o)],
           [ops |-> derived_operations(ps[p].ops, o), result |-> NotRun])

\* A non-terminal builder call on plan p: a new plan object with the
\* derived operations; p is not written.
derive(ps, p, o) ==
    Append(ps, [ops |-> derived_operations(ps[p].ops, o), result |-> NotRun])

\* graph.nodes(T): the plan with no operations.
Call_nodes ==
    /\ plans = <<>>
    /\ plans' = <<[ops |-> <<>>, result |-> NotRun]>>
    /\ UNCHANGED <<nm, st, heap, stepLists, trav, published, callers, path,
                   codec, cls, terminal, drv>>

Call_where(p, predicate) ==
    /\ Len(plans) < MaxPlans
    /\ plans' = derive(plans, p, Filter(predicate))
    /\ UNCHANGED <<nm, st, heap, stepLists, trav, published, callers, path,
                   codec, cls, terminal, drv>>

Call_order_by(p) ==
    /\ Len(plans) < MaxPlans
    /\ plans' = derive(plans, p, OrderBy("ascending"))
    /\ UNCHANGED <<nm, st, heap, stepLists, trav, published, callers, path,
                   codec, cls, terminal, drv>>

Call_order_by_descending(p) ==
    /\ Len(plans) < MaxPlans
    /\ plans' = derive(plans, p, OrderBy("descending"))
    /\ UNCHANGED <<nm, st, heap, stepLists, trav, published, callers, path,
                   codec, cls, terminal, drv>>

Call_take(p, count) ==
    /\ Len(plans) < MaxPlans
    /\ plans' = derive(plans, p, Take(count))
    /\ UNCHANGED <<nm, st, heap, stepLists, trav, published, callers, path,
                   codec, cls, terminal, drv>>

Call_skip(p, count) ==
    /\ Len(plans) < MaxPlans
    /\ plans' = derive(plans, p, Skip(count))
    /\ UNCHANGED <<nm, st, heap, stepLists, trav, published, callers, path,
                   codec, cls, terminal, drv>>

\* to_list: the plan is executed and its rows are returned.
Call_to_list(p) ==
    /\ plans' = [plans EXCEPT ![p].result =
                    [run |-> TRUE, rows |-> Execute(plans[p].ops)]]
    /\ UNCHANGED <<nm, st, heap, stepLists, trav, published, callers, path,
                   codec, cls, terminal, drv>>

\* What a call for one entity gives: an entity, the absent-value marker, or
\* an error.
Entity(x) == [ok |-> TRUE, value |-> <<x>>, error |-> NoError]

Absent == [ok |-> TRUE, value |-> <<>>, error |-> NoError]

Fails(type) ==
    [ok |-> FALSE, value |-> <<>>, error |-> [type |-> type, msg |-> "none"]]

\* A variant of first that gives the absent-value marker for no rows.
first_without_error(rows) ==
    IF rows = <<>> THEN Absent ELSE Entity(rows[1])

\* first(): the first row, NotFoundError when there is none.
first(rows) ==
    IF rows = <<>> THEN Fails("NotFoundError") ELSE Entity(rows[1])

\* first_or_default(): the first row, the absent-value marker when there is
\* none.
first_or_default(rows) ==
    IF rows = <<>> THEN Absent ELSE Entity(rows[1])

\* single_or_default(): the absent-value marker for no rows, the row when
\* there is one; what it gives for several rows is left open.
single_or_default(rows) ==
    IF rows = <<>> THEN {Absent}
    ELSE IF Len(rows) = 1 THEN {Entity(rows[1])}
    ELSE {Entity(rows[1]), Absent, Fails("ProviderError")}

NoTerminal == [plan |-> 0, outcomes |-> <<>>]

\* A call for one entity on plan p: the plan is executed and the outcome is
\* kept with the other outcomes for the same plan.
TerminalCall(p, name, outcome) ==
    /\ terminal' = [plan |-> p,
                    outcomes |-> Put(IF terminal.plan = p
                                     THEN terminal.outcomes ELSE <<>>,
                                     name, outcome)]
    /\ UNCHANGED <<nm, st, heap, stepLists, trav, published, callers, path,
                   codec, cls, plans, drv>>

Call_first(p) == TerminalCall(p, "first", first(Execute(plans[p].ops)))

Call_first_or_default(p) ==
    TerminalCall(p, "first_or_default", first_or_default(Execute(plans[p].ops)))

Call_single_or_default(p) ==
    \E outcome \in single_or_default(Execute(plans[p].ops)) :
        TerminalCall(p, "single_or_default", outcome)

\* Plans are built and asked for one entity.
NextTerminal ==
    \/ Call_nodes
    \/ \E p \in DOMAIN plans : \E predicate \in Predicates :
          Call_where(p, predicate)
    \/ \E p \in DOMAIN plans : Call_order_by(p)
    \/ \E p \in DOMAIN plans : Call_order_by_descending(p)
    \/ \E p \in DOMAIN plans : \E count \in Counts : Call_take(p, count)
    \/ \E p \in DOMAIN plans : \E count \in Counts : Call_skip(p, count)
    \/ \E p \in DOMAIN plans : Call_first(p)
    \/ \E p \in DOMAIN plans : Call_first_or_default(p)
    \/ \E p \in DOMAIN plans : Call_single_or_default(p)

\* Plans are built and listed.
NextPlans ==
    \/ Call_nodes
    \/ \E p \in DOMAIN plans : \E predicate \in Predicates :
          Call_where(p, predicate)
    \/ \E p \in DOMAIN plans : Call_order_by(p)
    \/ \E p \in DOMAIN plans : Call_order_by_descending(p)
    \/ \E p \in DOMAIN plans : \E count \in Counts : Call_take(p, count)
    \/ \E p \in DOMAIN plans : \E count \in Counts : Call_skip(p, count)
    \/ \E p \in DOMAIN plans : Call_to_list(p)

\* ----------------------------------------------------------- Neo4jDriver

MaxDrivers == 3     \* most drivers created in one behaviour

\* The tasks that call the class methods.
DriverTasks == {"A", "B"}

\* The arguments of initialize.
Uris == {"bolt://a", "bolt://b"}

Users == {"neo4j"}

Passwords == {"secret"}

\* AsyncGraphDatabase.driver(uri, auth=...): a new, open driver object.
NewDriver(uri) == [uri |-> uri, close_called |-> FALSE, closed |-> FALSE]

IdleTask == [pc |-> "idle", target |-> 0, uri |-> "none", auth |-> <<>>]

\* What get_driver or session gave since the last call of initialize or
\* close began.
NoGet == [op |-> "none", ok |-> FALSE, driver |-> 0, error |-> NoError]

\* The class before any call: _driver, _uri and _auth are None (0, "none"
\* and the empty tuple), no driver object exists, no task is in a call.
NoDriver ==
    [_driver |-> 0, _uri |-> "none", _auth |-> <<>>, drivers |-> <<>>,
     tasks |-> [t \in DriverTasks |-> IdleTask], got |-> NoGet,
     completed |-> "none"]

\* A variant of the test that never finds a driver to close.
driver_is_set_never(_driver) == FALSE

\* `if cls._driver is not None`, lines 20 and 34
driver_is_set(_driver) == _driver # 0

\* A variant of get_driver without the test for None.
get_driver_unchecked(op, _driver) ==
    [op |-> op, ok |-> TRUE, driver |-> _driver, error |-> NoError]

\* get_driver, lines 28-30; session returns a session of that driver.
get_driver(op, _driver) ==
    IF _driver = 0
    THEN [op |-> op, ok |-> FALSE, driver |-> 0,
          error |-> [type |-> "RuntimeError",
                     msg |-> "Neo4j driver not initialized. Call Neo4jDriver.initialize() first."]]
    ELSE [op |-> op, ok |-> TRUE, driver |-> _driver, error |-> NoError]

\* Lines 22-24: the arguments are stored, a driver is created and installed.
Install(d, t, uri, auth) ==
    [d EXCEPT !._uri = uri, !._auth = auth,
              !.drivers = Append(@, NewDriver(uri)),
              !._driver = Len(d.drivers) + 1,
              !.tasks[t] = IdleTask,
              !.completed = "initialize"]

\* initialize up to its await: with a driver set it calls close(), which
\* calls the driver's close() and is suspended there (lines 20-21, 34-35);
\* with none it runs to its end.
Call_initialize(t, uri, user, password) ==
    /\ drv.tasks[t].pc = "idle"
    /\ Len(drv.drivers) < MaxDrivers
    /\ drv' = IF driver_is_set(drv._driver)
              THEN [drv EXCEPT !.drivers[drv._driver].close_called = TRUE,
                               !.got = NoGet,
                               !.tasks[t] = [pc |-> "initialize",
                                             target |-> drv._driver,
                                             uri |-> uri,
                                             auth |-> <<user, password>>]]
              ELSE Install([drv EXCEPT !.got = NoGet], t, uri, <<user, password>>)
    /\ UNCHANGED <<nm, st, heap, stepLists, trav, published, callers, path,
                   codec, cls, plans, terminal>>

\* initialize after the await: the old driver is closed, close() sets
\* _driver to None (line 36) and lines 22-24 run.
Resume_initialize(t) ==
    LET k == drv.tasks[t]
    IN  /\ k.pc = "initialize"
        /\ drv' = Install([drv EXCEPT !.drivers[k.target].closed = TRUE,
                                      !._driver = 0],
                          t, k.uri, k.auth)
        /\ UNCHANGED <<nm, st, heap, stepLists, trav, published, callers, path,
                       codec, cls, plans, terminal>>

\* close up to its await: with no driver set it does nothing.
Call_close(t) ==
    /\ drv.tasks[t].pc = "idle"
    /\ drv' = IF driver_is_set(drv._driver)
              THEN [drv EXCEPT !.drivers[drv._driver].close_called = TRUE,
                               !.got = NoGet,
                               !.tasks[t] = [pc |-> "close",
                                             target |-> drv._driver,
                                             uri |-> "none", auth |-> <<>>]]
              ELSE [drv EXCEPT !.completed = "close", !.got = NoGet]
    /\ UNCHANGED <<nm, st, heap, stepLists, trav, published, callers, path,
                   codec, cls, plans, terminal>>

\* close after the await: the driver is closed and _driver becomes None.
Resume_close(t) ==
    LET k == drv.tasks[t]
    IN  /\ k.pc = "close"
        /\ drv' = [drv EXCEPT !.drivers[k.target].closed = TRUE,
                              !._driver = 0,
                              !.tasks[t] = IdleTask,
                              !.completed = "close"]
        /\ UNCHANGED <<nm, st, heap, stepLists, trav, published, callers, path,
                       codec, cls, plans, terminal>>

Call_get_driver(t) ==
    /\ drv.tasks[t].pc = "idle"
    /\ drv' = [drv EXCEPT !.got = get_driver("get_driver", drv._driver)]
    /\ UNCHANGED <<nm, st, heap, stepLists, trav, published, callers, path,
                   codec, cls, plans, terminal>>

\* session, line 41: cls.get_driver().session(**kwargs)
Call_session(t) ==
    /\ drv.tasks[t].pc = "idle"
    /\ drv' = [drv EXCEPT !.got = get_driver("session", drv._driver)]
    /\ UNCHANGED <<nm, st, heap, stepLists, trav, published, callers, path,
                   codec, cls, plans, terminal>>

\* No task is inside a call.
AllIdle == \A t \in DriverTasks : drv.tasks[t].pc = "idle"

\* Sequential use: a call starts only when no other call is in progress.
NextDriver ==
    \/ AllIdle /\ \E t \in DriverTasks, uri \in Uris, user \in Users,
                     password \in Passwords :
          Call_initialize(t, uri, user, password)
    \/ \E t \in DriverTasks : Resume_initialize(t)
    \/ AllIdle /\ \E t \in DriverTasks : Call_close(t)
    \/ \E t \in DriverTasks : Resume_close(t)
    \/ AllIdle /\ \E t \in DriverTasks : Call_get_driver(t)
    \/ AllIdle /\ \E t \in DriverTasks : Call_session(t)

\* Concurrent use: the tasks interleave at the awaits.
NextDriverTasks ==
    \/ \E t \in DriverTasks, uri \in Uris, user \in Users,
          password \in Passwords :
          Call_initialize(t, uri, user, password)
    \/ \E t \in DriverTasks : Resume_initialize(t)
    \/ \E t \in DriverTasks : Call_close(t)
    \/ \E t \in DriverTasks : Resume_close(t)
    \/ \E t \in DriverTasks : Call_get_driver(t)
    \/ \E t \in DriverTasks : Call_session(t)

\* ------------------------------------------------------------------- Init

Init ==
    /\ nm = [last |-> NoCall, prev |-> NoCall]
    /\ st = [called |-> FALSE, args |-> DefaultStep, error |-> NoError,
             exists |-> FALSE]
    /\ heap = << <<"n1">> >>
    /\ stepLists = <<>>
    /\ trav = <<>>
    /\ published = {}
    /\ callers = [c \in Callers |-> Idle]
    /\ path = NoPath
    /\ codec = NoCodecCall
    /\ cls = NoClassification
    /\ plans = <<>>
    /\ terminal = NoTerminal
    /\ drv = NoDriver

SpecNames == Init /\ [][NextNames]_vars

SpecSteps == Init /\ [][NextSteps]_vars

SpecTraversal == Init /\ [][NextTraversal]_vars

SpecPath == Init /\ [][NextPath]_vars

SpecCodec == Init /\ [][NextCodec]_vars

SpecClassify == Init /\ [][NextClassify]_vars

SpecPlans == Init /\ [][NextPlans]_vars

SpecTerminal == Init /\ [][NextTerminal]_vars

SpecDriver == Init /\ [][NextDriver]_vars

SpecDriverTasks == Init /\ [][NextDriverTasks]_vars

\* ----------------------------------------------------------------- claims

\* C2: for every field name f, property_name_to_relationship_type_name(f)
\* is exactly "__PROPERTY__" + f + "__", mapping it back returns f, and two
\* field names with the same relationship type name are the same name.
C2_NameRoundTrip ==
    /\ nm.last.op = "forward" =>
          /\ nm.last.out = <<"_", "_", "P", "R", "O", "P", "E", "R", "T", "Y", "_", "_">>
                              \o nm.last.arg \o <<"_", "_">>
          /\ nm.last.back = nm.last.arg
    /\ (nm.last.op = "forward" /\ nm.prev.op = "forward"
            /\ nm.last.out = nm.prev.out) => nm.last.arg = nm.prev.arg

\* The empty name and a name made of underscores were mapped forth and back.
C2_Witness ==
    /\ nm.last.op = "forward" /\ nm.prev.op = "forward"
    /\ nm.last.arg = <<>>
    /\ nm.prev.arg = <<"_", "_">>
    /\ nm.last.back = <<>>

\* A relationship type name is an output of the forward function.
IsForwardOutput(n) ==
    \E k \in 0..Len(n) :
        /\ Len(n) = k + 14
        /\ n = <<"_", "_", "P", "R", "O", "P", "E", "R", "T", "Y", "_", "_">>
                  \o SubSeq(n, 13, 12 + k) \o <<"_", "_">>

\* C3: relationship_type_name_to_property_name returns its input unchanged
\* for every relationship type name that is not the output of the forward
\* function for some field name.
C3_NonMatchingUnchanged ==
    (nm.last.op = "inverse" /\ ~IsForwardOutput(nm.last.arg))
        => nm.last.out = nm.last.arg

\* The depth bounds a TraversalStep must satisfy.
StepInvariant(s) == s.min_depth >= 0 /\ s.max_depth >= s.min_depth

Settings(t) ==
    [steps |-> stepLists[trav[t]._steps],
     max_total_depth |-> trav[t]._max_total_depth,
     include_paths |-> trav[t]._include_paths]

\* C5: no step of any builder call changes the step list, the maximum
\* total depth or the paths flag of a traversal a caller already holds.
C5_ReceiverUnchanged ==
    [][\A t \in published : Settings(t)' = Settings(t)]_vars

\* A template has been used twice: one variant of it is already held by a
\* caller and a second one, with a different setting, is being returned.
C5_Witness ==
    \E c \in Callers, t \in published :
        /\ callers[c].pc = "ret"
        /\ callers[c].self \in published
        /\ t # callers[c].self
        /\ trav[callers[c].self]._steps # trav[t]._steps
        /\ Len(Settings(t).steps) = 1
        /\ Settings(callers[c].self).steps = <<>>
        /\ Settings(callers[c].new) # Settings(t)
        /\ Settings(callers[c].new) # Settings(callers[c].self)

\* C6: the value a builder returns is a new object that has the receiver's
\* start nodes and differs from the receiver only in the setting applied:
\* add_step appends the step after the receiver's steps, with_depth_limit(n)
\* sets the maximum total depth to n, include_paths sets the paths flag.
C6_BuilderResult ==
    \A c \in Callers :
        callers[c].pc = "ret" =>
            LET k == callers[c]
                old == Settings(k.self)
                new == Settings(k.new)
            IN  /\ k.new # k.self
                /\ k.new \notin published
                /\ trav[k.new]._steps # trav[k.self]._steps
                /\ trav[k.new]._start_nodes = trav[k.self]._start_nodes
                /\ k.op = "add_step" =>
                      new = [old EXCEPT !.steps = old.steps \o <<k.step>>]
                /\ k.op = "with_depth_limit" =>
                      new = [old EXCEPT !.max_total_depth = k.n]
                /\ k.op = "include_paths" =>
                      new = [old EXCEPT !.include_paths = TRUE]

\* with_depth_limit is returning a copy of a receiver that has a step.
C6_Witness ==
    \E c \in Callers :
        /\ callers[c].pc = "ret"
        /\ callers[c].op = "with_depth_limit"
        /\ Len(Settings(callers[c].self).steps) = 1
        /\ Settings(callers[c].new).max_total_depth = 1

\* Everything a caller can observe of a traversal.
Observed(t) ==
    [start_nodes |-> heap[trav[t]._start_nodes],
     steps |-> stepLists[trav[t]._steps],
     max_total_depth |-> trav[t]._max_total_depth,
     include_paths |-> trav[t]._include_paths]

\* C7: under every interleaving of the callers, and of the application
\* using the list of start nodes it passed to the constructor, no step
\* changes the start nodes, steps, depth limit or paths flag of a traversal
\* a caller holds.
C7_SharedImmutable ==
    [][\A t \in published : Observed(t)' = Observed(t)]_vars

\* C8: a TraversalPath is constructed exactly when it has a node and one
\* fewer relationship than nodes, and a constructed path has at least one
\* node and exactly one fewer relationship than nodes after any later
\* operation on it.
C8_PathInvariant ==
    /\ path.state = "failed" => path.error.type = "ValueError"
    /\ path.state = "built" =>
          /\ Len(heap[path.nodes]) >= 1
          /\ Len(heap[path.relationships]) = Len(heap[path.nodes]) - 1

\* C1: deserializing the wire record of an entity, with its type and the
\* related values it held, returns an entity equal to it.
C1_RoundTrip ==
    codec.op \in {"round_trip_node", "round_trip_relationship"} =>
        codec.result.ok /\ codec.result.entity = codec.entity

\* The field is a related-node field (RelatedNode, or CollectionOfComplex
\* when its declared type is a collection).
IsRelated(fd) == fd.info /\ fd.field_type = "related_node"

\* The field is stored as a plain property (Simple, or CollectionOfSimple
\* when its declared type is a collection); a field without a descriptor
\* is treated as one.
IsSimple(fd) == ~fd.info \/ fd.field_type = "simple"

\* C9: serialize_node gives every non-absent related-node field exactly
\* one complex-property entry, keyed by the field name, that carries the
\* field's value as dumped (not encoded as text), the private flag, and the
\* explicit relationship type when one is declared, otherwise
\* "__PROPERTY__" + field_name + "__"; no other field gets an entry.
C9_ComplexEntries ==
    codec.op = "serialize_node" =>
        LET entries == codec.wire.complex_properties
        IN  /\ DOMAIN entries =
                  {f \in Fields : IsRelated(codec.type[f])
                                  /\ codec.entity[f] # NoneVal}
            /\ \A f \in DOMAIN entries :
                  /\ entries[f].value =
                        Val(IF codec.type[f].shape = "structured" THEN "dict"
                            ELSE "dicts", codec.entity[f].v)
                  /\ entries[f].private = codec.type[f].private_relationship
                  /\ entries[f].relationship_type =
                        IF codec.type[f].relationship_type # None
                        THEN codec.type[f].relationship_type
                        ELSE <<"_", "_", "P", "R", "O", "P", "E", "R", "T", "Y", "_", "_">>
                                \o f \o <<"_", "_">>

\* home, related with no explicit relationship type, got the entry
\* __PROPERTY__home__.
C9_Witness ==
    /\ codec.op = "serialize_node"
    /\ IsRelated(codec.type[HOME])
    /\ codec.type[HOME].relationship_type = None
    /\ codec.type[HOME].private_relationship
    /\ HOME \in DOMAIN codec.wire.complex_properties
    /\ codec.wire.complex_properties[HOME].relationship_type =
          <<"_", "_", "P", "R", "O", "P", "E", "R", "T", "Y", "_", "_",
            "h", "o", "m", "e", "_", "_">>
    /\ codec.wire.complex_properties[HOME].private

\* The storage label of a field: its explicit label, else its name.
StorageLabel(f) ==
    IF codec.type[f].label = None THEN f ELSE codec.type[f].label

\* C10: for nodes and relationships alike, every non-absent Simple or
\* CollectionOfSimple field is in the property map under its storage label
\* with its value unchanged, and the property map has no key that is not
\* the storage label of a present field.
C10_SimpleCopied ==
    codec.op \in {"serialize_node", "serialize_relationship"} =>
        LET props == codec.wire.properties
        IN  /\ \A f \in Fields :
                  (IsSimple(codec.type[f]) /\ codec.entity[f] # NoneVal) =>
                      /\ StorageLabel(f) \in DOMAIN props
                      /\ props[StorageLabel(f)] = codec.entity[f]
            /\ DOMAIN props \subseteq
                  {StorageLabel(f) : f \in {g \in Fields : codec.entity[g] # NoneVal}}

\* The field is stored as one text property (Embedded).
IsEmbedded(fd) == fd.info /\ fd.field_type = "embedded"

\* C11: in every wire record serialize_node or serialize_relationship
\* produces, no related-node or collection-of-complex field is a key of the
\* property map, neither under its field name nor under its storage label;
\* only the complex-property map may name such a field.
C11_RelatedNeverProperty ==
    codec.op \in {"serialize_node", "serialize_relationship"} =>
        \A f \in Fields :
            IsRelated(codec.type[f]) =>
                /\ f \notin DOMAIN codec.wire.properties
                /\ StorageLabel(f) \notin DOMAIN codec.wire.properties

\* A node whose related field has an explicit label and a value was
\* serialized: the field is in the complex-property map only.
C11_Witness ==
    /\ codec.op = "serialize_node"
    /\ IsRelated(codec.type[HOME])
    /\ codec.type[HOME].label = OtherLabel(HOME)
    /\ codec.entity[HOME] # NoneVal
    /\ HOME \in DOMAIN codec.wire.complex_properties
    /\ DOMAIN codec.wire.properties \cap {HOME, OtherLabel(HOME)} = {}

\* The keys under which the serializers may have written a field: its
\* name, its label, and the label None of a labelless relationship field.
KeysOf(f) == {f, codec.type[f].label}

\* C12: serialization skips absent fields.  A field whose value is None has
\* no entry in the property map (under its name or its label) and none in
\* the complex-property map, whatever its classification; and every key of
\* either map was written for a field whose value is present.
C12_AbsentSkipped ==
    codec.op \in {"serialize_node", "serialize_relationship"} =>
        LET props == codec.wire.properties
            complex == codec.wire.complex_properties
            present == {f \in Fields : codec.entity[f] # NoneVal}
        IN  /\ \A f \in Fields \ present :
                  /\ f \notin DOMAIN props
                  /\ codec.type[f].label # None =>
                        codec.type[f].label \notin DOMAIN props
                  /\ f \notin DOMAIN complex
            /\ \A k \in DOMAIN props : \E f \in present : k \in KeysOf(f)
            /\ DOMAIN complex \subseteq present

\* An entity with one absent and one present optional field was
\* serialized: only the present one left a key.
C12_Witness ==
    /\ codec.op \in {"serialize_node", "serialize_relationship"}
    /\ codec.entity[HOME] = NoneVal
    /\ codec.entity[AGE] # NoneVal
    /\ IsEmbedded(codec.type[HOME])
    /\ IsSimple(codec.type[AGE]) /\ codec.type[AGE].label = OtherLabel(AGE)
    /\ DOMAIN codec.wire.properties = {ID, OtherLabel(AGE)}

\* C13: every non-absent Embedded field is stored as exactly one property,
\* under its storage label, whose value is the text that encodes the
\* structured value, never the structured value itself; so every value of
\* a property map is a scalar, a collection of scalars or such a text.
C13_EmbeddedAsText ==
    codec.op \in {"serialize_node", "serialize_relationship"} =>
        LET props == codec.wire.properties
        IN  /\ \A f \in Fields :
                  (IsEmbedded(codec.type[f]) /\ codec.entity[f] # NoneVal) =>
                      /\ StorageLabel(f) \in DOMAIN props
                      /\ props[StorageLabel(f)] =
                            json_dumps(model_dump_value(codec.entity[f]))
                      /\ StorageLabel(f) # f => f \notin DOMAIN props
            /\ \A k \in DOMAIN props :
                  \/ props[k].kind \in {"int", "str", "list"}
                  \/ IsJson(props[k])

\* The row holds data for the field: a value under its storage label.
InRow(f) == StorageLabel(f) \in DOMAIN codec.wire.properties

\* C14: deserialize_node and deserialize_relationship parse the stored text
\* of every Embedded field the row holds back into the structured value it
\* encodes, so that the entity is built from the parsed value, whether or
\* not complex-property data is supplied or names the field.
C14_BlobsParsed ==
    codec.op \in {"deserialize_node", "deserialize_relationship"} =>
        \A f \in Fields :
            (/\ IsEmbedded(codec.type[f])
             /\ InRow(f)
             /\ IsJson(codec.wire.properties[StorageLabel(f)])) =>
                /\ codec.result.error.type \notin EarlyErrors
                /\ f \in DOMAIN codec.kwargs
                /\ codec.kwargs[f] =
                      json_loads(codec.wire.properties[StorageLabel(f)])

\* C15: deserialize_node sets every related-node or collection-of-complex
\* field to the value the complex-property data supplies for it, also when
\* the row has no key for the field.
C15_RelatedSubstituted ==
    codec.op = "deserialize_node" =>
        \A f \in Fields :
            (IsRelated(codec.type[f]) /\ f \in DOMAIN codec.complex_data) =>
                /\ f \in DOMAIN codec.kwargs
                /\ codec.kwargs[f] = codec.complex_data[f]

\* C16: deserialize fails, with MissingRequiredFieldError, exactly when a
\* required field without default has neither data in the row nor a
\* substitute in the complex-property data; otherwise it returns an entity.
C16_MissingRequired ==
    codec.op \in {"deserialize_node", "deserialize_relationship"} =>
        LET missing == \E f \in Fields :
                          /\ codec.type[f].required
                          /\ ~InRow(f)
                          /\ f \notin DOMAIN codec.complex_data
        IN  /\ missing => /\ ~codec.result.ok
                          /\ codec.result.error.type = "MissingRequiredFieldError"
            /\ ~missing => codec.result.ok

\* The predicate was called for the declared type and returned True.
Holds(predicate) ==
    predicate \in DOMAIN cls.results /\ cls.results[predicate]

\* The predicate, if it was called for the declared type, returned value.
Gives(predicate, value) ==
    predicate \in DOMAIN cls.results => cls.results[predicate] = value

\* C17 as stated: is_simple_type, is_collection_of_simple and
\* is_collection_of_complex never hold together for one type; in
\* particular no type is at once simple and a collection of simple.
C17_AsStated ==
    /\ ~(Holds("is_simple_type") /\ Holds("is_collection_of_simple"))
    /\ ~(Holds("is_simple_type") /\ Holds("is_collection_of_complex"))
    /\ ~(Holds("is_collection_of_simple") /\ Holds("is_collection_of_complex"))

\* C17: for every declared type exactly one of is_simple_type and
\* is_complex_type holds; is_collection_of_complex never holds together
\* with is_simple_type or with is_collection_of_simple; and every type for
\* which is_collection_of_simple holds is also simple for is_simple_type.
C17_Predicates ==
    /\ ("is_simple_type" \in DOMAIN cls.results
            /\ "is_complex_type" \in DOMAIN cls.results) =>
          cls.results["is_simple_type"] # cls.results["is_complex_type"]
    /\ ~(Holds("is_simple_type") /\ Holds("is_collection_of_complex"))
    /\ ~(Holds("is_collection_of_simple") /\ Holds("is_collection_of_complex"))
    /\ Holds("is_collection_of_simple") => Gives("is_simple_type", TRUE)
    /\ Holds("is_collection_of_complex") => Gives("is_complex_type", TRUE)

\* All four predicates were called for set[bytes]: it is simple and a
\* collection of simple at once.
C17_Witness ==
    /\ cls.declared
    /\ cls.type = Generic("set", <<Atom("bytes")>>)
    /\ DOMAIN cls.results = {"is_simple_type", "is_complex_type",
                             "is_collection_of_simple",
                             "is_collection_of_complex"}
    /\ Holds("is_simple_type") /\ Holds("is_collection_of_simple")
    /\ ~Holds("is_complex_type") /\ ~Holds("is_collection_of_complex")

\* The four shapes of the ordered rules.
IsPrimitive(type_obj) == type_obj \in BasicTypes \cup DatetimeTypes

IsCollectionOf(type_obj, elements) ==
    /\ type_obj.origin \in CollectionOrigins
    /\ Len(type_obj.args) = 1
    /\ type_obj.args[1] \in elements

IsCollectionOfCollections(type_obj) ==
    /\ type_obj.origin \in CollectionOrigins
    /\ Len(type_obj.args) = 1
    /\ type_obj.args[1].origin \in CollectionOrigins

\* C19: a collection of collections is never given a classification: the
\* call made for it is rejected with ConfigurationError, and none of
\* is_simple_type, is_collection_of_simple and is_collection_of_complex
\* holds for it.
C19_NestedRejected ==
    (cls.declared /\ IsCollectionOfCollections(cls.type)) =>
        /\ cls.results # <<>> => cls.error.type = "ConfigurationError"
        /\ ~Holds("is_simple_type")
        /\ ~Holds("is_collection_of_simple")
        /\ ~Holds("is_collection_of_complex")

\* C20: query plans are never mutated in place.  Whatever call is made,
\* every plan that exists keeps its operation sequence, and a plan that was
\* executed before yields the same rows when it is executed again.
C20_PlansImmutable ==
    [][\A p \in DOMAIN plans :
          /\ p \in DOMAIN plans'
          /\ plans'[p].ops = plans[p].ops
          /\ (plans[p].result.run /\ plans'[p].result.run) =>
                plans'[p].result.rows = plans[p].result.rows]_vars

\* The base plan and a plan derived from it with where were both executed:
\* the base still has no operation and yields every stored row.
C20_Witness ==
    /\ Len(plans) >= 3
    /\ plans[1].ops = <<>>
    /\ plans[2].ops = <<Filter("even")>>
    /\ plans[3].ops = <<Filter("even"), OrderBy("descending")>>
    /\ plans[1].result = [run |-> TRUE, rows |-> StoredRows]
    /\ plans[2].result = [run |-> TRUE, rows |-> <<2>>]

\* The rows the plan last asked for one entity yields.
TerminalRows == Execute(plans[terminal.plan].ops)

\* The call was made on that plan and gave the outcome.
Gave(name, outcome) ==
    name \in DOMAIN terminal.outcomes => terminal.outcomes[name] = outcome

\* C21: on a plan with no matching row first() fails with NotFoundError
\* while first_or_default() and single_or_default() on the same plan return
\* the absent-value marker; on a plan with at least one matching row
\* first() and first_or_default() return the same entity, the first row.
C21_FirstAndDefaults ==
    terminal.plan # 0 =>
        /\ TerminalRows = <<>> =>
              /\ Gave("first", Fails("NotFoundError"))
              /\ Gave("first_or_default", Absent)
              /\ Gave("single_or_default", Absent)
        /\ TerminalRows # <<>> =>
              /\ Gave("first", Entity(TerminalRows[1]))
              /\ Gave("first_or_default", Entity(TerminalRows[1]))

\* The three calls were made on a plan whose filter matches no row.
C21_Witness ==
    /\ terminal.plan # 0
    /\ plans[terminal.plan].ops = <<Filter("gt3")>>
    /\ DOMAIN terminal.outcomes = {"first", "first_or_default", "single_or_default"}
    /\ ~terminal.outcomes["first"].ok
    /\ terminal.outcomes["first"].error.type = "NotFoundError"
    /\ terminal.outcomes["first_or_default"] = Absent
    /\ terminal.outcomes["single_or_default"] = Absent

\* The ids of the dict objects of a wire record.
MapsOf(maps) == {maps.properties, maps.complex_properties} \ {0}

C23_DepthLimit ==
    [][/\ \A t \in DOMAIN trav' :
             \/ trav'[t]._max_total_depth = NoDepth
             \/ trav'[t]._max_total_depth >= 0
       /\ \A c \in Callers :
             (/\ callers[c].pc = "idle" /\ callers'[c].pc # "idle"
              /\ callers'[c].op = "with_depth_limit" /\ callers'[c].n < 0) =>
                 /\ callers'[c].pc = "raised"
                 /\ callers'[c].error.type = "ValueError"
                 /\ UNCHANGED <<trav, stepLists, heap, published>>
       /\ \A c \in Callers :
             (callers[c].pc = "raised" /\ callers'[c].pc # "raised") =>
                 /\ callers'[c] = Idle
                 /\ UNCHANGED <<trav, stepLists, heap, published>>]_vars

\* with_depth_limit(-1) was called on a traversal whose limit is 1 and
\* raised: the receiver still has its limit.
C23_Witness ==
    \E c \in Callers :
        /\ callers[c].pc = "raised"
        /\ callers[c].op = "with_depth_limit"
        /\ callers[c].n = -1
        /\ callers[c].error = ValueError("Maximum depth must be non-negative")
        /\ trav[callers[c].self]._max_total_depth = 1

\* The drivers created through the class that are still open.
OpenDrivers == {d \in DOMAIN drv.drivers : ~drv.drivers[d].closed}

\* C24: in sequential use get_driver (and session) fails with RuntimeError
\* exactly when no driver is initialised, that is before the first
\* initialize or after a close not followed by an initialize; otherwise it
\* returns the driver the most recent initialize created, on which close
\* was never called.
C24_GetDriver ==
    drv.got.op # "none" =>
        /\ drv.completed \in {"none", "close"} =>
              /\ ~drv.got.ok
              /\ drv.got.error.type = "RuntimeError"
        /\ drv.completed = "initialize" =>
              /\ drv.got.ok
              /\ drv.got.driver = Len(drv.drivers)
              /\ ~drv.drivers[drv.got.driver].close_called
              /\ ~drv.drivers[drv.got.driver].closed

\* After initialize, close and a second initialize, session was given the
\* second driver.
C24_Witness ==
    /\ drv.got.op = "session" /\ drv.got.ok
    /\ drv.got.driver = 2
    /\ drv.drivers[1].closed
    /\ drv.completed = "initialize"

\* C25: in sequential use at most one driver created through the class is
\* open, and it is the one _driver references; the step of initialize that
\* creates a driver leaves every older driver closed and installs the new
\* one; and close on a class with no driver changes nothing.
C25_OneOpenDriver ==
    [][/\ \A d \in DOMAIN drv'.drivers :
             ~drv'.drivers[d].closed => d = drv'._driver
       /\ Len(drv'.drivers) > Len(drv.drivers) =>
             /\ \A d \in DOMAIN drv.drivers : drv'.drivers[d].closed
             /\ drv'._driver = Len(drv'.drivers)
             /\ ~drv'.drivers[drv'._driver].closed
       /\ (drv._driver = 0 /\ Len(drv'.drivers) = Len(drv.drivers)) =>
             /\ drv'._driver = 0
             /\ drv'.drivers = drv.drivers
             /\ drv'._uri = drv._uri /\ drv'._auth = drv._auth
             /\ drv'.tasks = drv.tasks]_vars

\* initialize was called on a class that had a driver: the first driver is
\* closed, the second is open and installed.
C25_Witness ==
    /\ Len(drv.drivers) = 2
    /\ drv.drivers[1].closed
    /\ ~drv.drivers[2].closed
    /\ drv._driver = 2
    /\ drv._uri = "bolt://b" /\ drv.drivers[1].uri = "bolt://a"
    /\ AllIdle

\* C26: under every interleaving of initialize and close, once all calls
\* have completed every driver ever created is closed or is the one
\* _driver references: no open driver is left unreferenced.
C26_NoLeak ==
    AllIdle => \A d \in OpenDrivers : d = drv._driver

====
